---- MODULE Spec2Model ----
(***************************************************************************)
(* A model of uptree.py: the UpTree directory-traversal cache, its .dirty  *)
(* markers and its per-directory .uptree-cache files.                      *)
(*                                                                         *)
(* A Python string that is a path is modelled by its text: the sequence of *)
(* its '/'-separated components (what str.split('/') returns), each        *)
(* component being the sequence of its characters.  "/r/a" is              *)
(* << <<>>, <<"r">>, <<"a">> >>, "/" is << <<>>, <<>> >>, "" is << <<>> >>. *)
(* str.startswith, os.path.join, normpath and dirname are computed on that *)
(* text as posixpath computes them.                                        *)
(***************************************************************************)
EXTENDS Naturals, Integers, Sequences, FiniteSets, TLC

\* ------------------------------------------------------------------------
\* str and posixpath
\* ------------------------------------------------------------------------

\* the empty string, and the string "/"
EmptyStr == << <<>> >>
Slash == << <<>>, <<>> >>

\* a + b on strings
Cat(a, b) == SubSeq(a, 1, Len(a) - 1) \o << a[Len(a)] \o b[1] >> \o Tail(b)

\* str.startswith
StartsWith(s, pre) ==
    /\ Len(s) >= Len(pre)
    /\ \A k \in 1..(Len(pre) - 1) : s[k] = pre[k]
    /\ Len(s[Len(pre)]) >= Len(pre[Len(pre)])
    /\ SubSeq(s[Len(pre)], 1, Len(pre[Len(pre)])) = pre[Len(pre)]

\* str.endswith('/')
EndsWithSlash(s) == Len(s) >= 2 /\ s[Len(s)] = <<>>

\* P.isabs
IsAbs(p) == Len(p) >= 2 /\ p[1] = <<>>

\* P.join(a, b)
Join(a, b) ==
    IF IsAbs(b) THEN b
    ELSE IF a = EmptyStr \/ EndsWithSlash(a) THEN Cat(a, b)
    ELSE a \o b

\* whether a string consists of slashes only (the empty string included)
AllSlashes(s) == \A k \in 1..Len(s) : s[k] = <<>>

RECURSIVE RStripSlash(_)
\* str.rstrip('/')
RStripSlash(s) ==
    IF EndsWithSlash(s) THEN RStripSlash(SubSeq(s, 1, Len(s) - 1))
    ELSE s

\* P.dirname
DirName(p) ==
    LET head == IF Len(p) = 1 THEN EmptyStr ELSE SubSeq(p, 1, Len(p) - 1) \o << <<>> >>
    IN  IF head # EmptyStr /\ ~AllSlashes(head) THEN RStripSlash(head) ELSE head

\* P.basename
BaseName(p) == << p[Len(p)] >>

\* str.split('/')
Split(p) == p

DotDot == <<".", ".">>

RECURSIVE NormComps(_, _, _)
\* the loop of P.normpath over the components
NormComps(comps, new, initial) ==
    IF comps = <<>> THEN new
    ELSE LET c == Head(comps)
             rest == Tail(comps)
         IN  IF c = <<>> \/ c = <<".">> THEN NormComps(rest, new, initial)
             ELSE IF c # DotDot \/ (initial = 0 /\ new = <<>>)
                     \/ (new # <<>> /\ new[Len(new)] = DotDot)
                  THEN NormComps(rest, Append(new, c), initial)
                  ELSE IF new # <<>>
                       THEN NormComps(rest, SubSeq(new, 1, Len(new) - 1), initial)
                       ELSE NormComps(rest, new, initial)

\* P.normpath
NormPath(p) ==
    IF p = EmptyStr THEN << <<".">> >>
    ELSE LET initial == IF ~IsAbs(p) THEN 0
                        ELSE IF StartsWith(p, << <<>>, <<>>, <<>> >>)
                                /\ ~StartsWith(p, << <<>>, <<>>, <<>>, <<>> >>)
                             THEN 2 ELSE 1
             new == NormComps(Split(p), <<>>, initial)
             body == IF new = <<>> THEN EmptyStr ELSE new
             res == Cat([k \in 1..(initial + 1) |-> <<>>], body)
         IN  IF res = EmptyStr THEN << <<".">> >> ELSE res

\* os.getcwd() of the process
Cwd == Slash

\* P.abspath
AbsPath(p) == NormPath(IF IsAbs(p) THEN p ELSE Join(Cwd, p))

\* parentdir
ParentDir(p) == AbsPath(Join(p, <<DotDot>>))

\* ------------------------------------------------------------------------
\* The filesystem: a map from the absolute normalized paths that exist to
\* their node.  Only the mtime of a file the program did not write is ever
\* read by the program, so a marker or cache file carries the mtime 0.
\* ------------------------------------------------------------------------

DirNode == [kind |-> "dir", content |-> [t |-> "none", v |-> {}], mtime |-> 0]
FileNode(c, m) == [kind |-> "file", content |-> c, mtime |-> m]
Text(s) == [t |-> "text", v |-> s]

\* "no such path"
NoEnt == <<>>

RECURSIVE Walk(_, _, _)
\* the kernel's path walk from the node cur along the components comps
Walk(fs, cur, comps) ==
    IF cur \notin DOMAIN fs THEN NoEnt
    ELSE IF comps = <<>> THEN cur
    ELSE IF fs[cur].kind # "dir" THEN NoEnt
    ELSE LET c == Head(comps)
         IN  IF c = <<>> \/ c = <<".">> THEN Walk(fs, cur, Tail(comps))
             ELSE IF c = DotDot THEN Walk(fs, DirName(cur), Tail(comps))
             ELSE Walk(fs, Join(cur, <<c>>), Tail(comps))

\* the node a path string names, NoEnt when there is none
Resolve(fs, p) ==
    IF p = EmptyStr THEN NoEnt
    ELSE Walk(fs, Slash, Tail(Split(IF IsAbs(p) THEN p ELSE Join(Cwd, p))))

\* P.exists
PExists(fs, p) == Resolve(fs, p) # NoEnt

\* the kind of the node a path names: "dir", "file" or "none"
Kind(fs, p) == IF Resolve(fs, p) = NoEnt THEN "none" ELSE fs[Resolve(fs, p)].kind

\* the names of the entries of the directory d
Entry(fs, d) ==
    LET n == Resolve(fs, d)
    IN  {BaseName(q) : q \in {q \in DOMAIN fs : q # n /\ DirName(q) = n}}

\* os.listdir(d): the entries in the order the operating system returns
\* them, which is the order they have in ord
ListDir(fs, d, ord) ==
    LET e == Entry(fs, d) IN SelectSeq(ord, LAMBDA c : c \in e)

\* P.isfile, P.isdir
PIsFile(fs, p) == Kind(fs, p) = "file"
PIsDir(fs, p) == Kind(fs, p) = "dir"

\* whether open(p, 'w') succeeds
CanOpenW(fs, p) ==
    LET d == Resolve(fs, IF DirName(p) = EmptyStr THEN Cwd ELSE DirName(p))
        b == BaseName(p)
    IN  /\ d # NoEnt
        /\ fs[d].kind = "dir"
        /\ b \notin {EmptyStr, << <<".">> >>, <<DotDot>>}
        /\ (Join(d, b) \in DOMAIN fs => fs[Join(d, b)].kind = "file")

\* the filesystem after open(p, 'w') and a write of the content c
OpenW(fs, p, c) ==
    LET d == Resolve(fs, IF DirName(p) = EmptyStr THEN Cwd ELSE DirName(p))
    IN  (Join(d, BaseName(p)) :> FileNode(c, 0)) @@ fs

\* os.remove
Remove(fs, p) == [q \in DOMAIN fs \ {Resolve(fs, p)} |-> fs[q]]

\* ------------------------------------------------------------------------
\* _PersistentDict and _UpTreeCache: a dict is a function on its keys
\* ------------------------------------------------------------------------

EmptyMap == <<>>

\* an instance that has no attribute `cache`
NoCache == <<>>
HasCache(c) == DOMAIN c # {}

\* pickle.dump(dict(self)): every key with the items of its container
Dump(d) ==
    [t |-> "pickle",
     v |-> {<<k, IF k = "files" THEN d[k] ELSE {<<p, d[k][p]>> : p \in DOMAIN d[k]}>> :
                k \in DOMAIN d}]

\* whether pickle.load succeeds on a file content
CanLoad(c) == c.t = "pickle"

\* pickle.load
Load(c) ==
    [k \in {e[1] : e \in c.v} |->
        LET payload == (CHOOSE e \in c.v : e[1] = k)[2]
        IN  IF k = "files" THEN payload
            ELSE [p \in {it[1] : it \in payload} |->
                     (CHOOSE it \in payload : it[1] = p)[2]]]

\* _UpTreeCache.__init__ before _load: files=set(), data={}
NewCache == [k \in {"files", "data"} |-> IF k = "files" THEN {} ELSE EmptyMap]

\* _UpTreeCache.clear
Clear(c) == [k \in {"files", "data", "mtime"} |-> IF k = "files" THEN {} ELSE EmptyMap]

\* dict.update(other)
DictUpdate(d, other) == other @@ d

\* whether _UpTreeCache.add_sub_cache finds the keys it reads
CanAddSubCache(c, sub) ==
    {"files", "data", "mtime"} \subseteq (DOMAIN c \cap DOMAIN sub)

\* add_sub_cache without the line that merges files
AddSubCache_nofiles(c, sub) ==
    [c EXCEPT !["data"] = DictUpdate(@, sub["data"]),
              !["mtime"] = DictUpdate(@, sub["mtime"])]

\* add_sub_cache without the line that merges data
AddSubCache_nodata(c, sub) ==
    [c EXCEPT !["files"] = @ \cup sub["files"],
              !["mtime"] = DictUpdate(@, sub["mtime"])]

\* _UpTreeCache.add_sub_cache
AddSubCache(c, sub) ==
    [c EXCEPT !["files"] = @ \cup sub["files"],
              !["data"] = DictUpdate(@, sub["data"]),
              !["mtime"] = DictUpdate(@, sub["mtime"])]

\* _PersistentDict.sync
Sync(c, cache_file, fs) == OpenW(fs, cache_file, Dump(c))

\* ------------------------------------------------------------------------
\* UpTree
\* ------------------------------------------------------------------------

\* the root argument of UpTree(...)
RootArg == << <<>>, <<"r">> >>

\* self.root
root == NormPath(AbsPath(RootArg))

DirtyName == << <<".", "d", "i", "r", "t", "y">> >>
CacheName == << <<".", "u", "p", "t", "r", "e", "e", "-", "c", "a", "c", "h", "e">> >>

\* self.content_cache_filenames, self.mtime_cache_filenames: the caller's
\* lists, here with the name of a hidden file among the names to read
content_cache_filenames == {<< <<"i">> >>, DirtyName}
mtime_cache_filenames == {<< <<"l">> >>}

\* self._cache_file of an instance rooted at r
CacheFile(r) == Join(r, CacheName)

\* the content written into a marker: a timestamp nobody reads
Stamp == Text("UpTree dirty file created at")

RECURSIVE mark_dirty(_, _)

\* mark_dirty without `1 +` in front of the recursive call
mark_dirty_nocount(dir, fs) ==
    IF ~IsAbs(dir) THEN [exc |-> "AssertionError", ret |-> 0, fs |-> fs]
    ELSE IF ~StartsWith(dir, root) THEN [exc |-> "ValueError", ret |-> 0, fs |-> fs]
    ELSE LET d == IF PIsFile(fs, dir) THEN DirName(dir) ELSE dir
             dirty_file == Join(d, DirtyName)
         IN  IF ~CanOpenW(fs, dirty_file) THEN [exc |-> "IOError", ret |-> 0, fs |-> fs]
             ELSE LET fs1 == OpenW(fs, dirty_file, Stamp)
                  IN  IF NormPath(d) # root
                      THEN mark_dirty(ParentDir(d), fs1)
                      ELSE [exc |-> "none", ret |-> 0, fs |-> fs1]

\* mark_dirty that marks the directory and not its parents
mark_dirty_noparent(dir, fs) ==
    IF ~IsAbs(dir) THEN [exc |-> "AssertionError", ret |-> 0, fs |-> fs]
    ELSE IF ~StartsWith(dir, root) THEN [exc |-> "ValueError", ret |-> 0, fs |-> fs]
    ELSE LET d == IF PIsFile(fs, dir) THEN DirName(dir) ELSE dir
             dirty_file == Join(d, DirtyName)
         IN  IF ~CanOpenW(fs, dirty_file) THEN [exc |-> "IOError", ret |-> 0, fs |-> fs]
             ELSE [exc |-> "none", ret |-> 0, fs |-> OpenW(fs, dirty_file, Stamp)]

\* UpTree.mark_dirty: the exception raised ("none" when it returns), the
\* value returned and the filesystem it leaves
mark_dirty(dir, fs) ==
    IF ~IsAbs(dir) THEN [exc |-> "AssertionError", ret |-> 0, fs |-> fs]
    ELSE IF ~StartsWith(dir, root) THEN [exc |-> "ValueError", ret |-> 0, fs |-> fs]
    ELSE LET d == IF PIsFile(fs, dir) THEN DirName(dir) ELSE dir
             dirty_file == Join(d, DirtyName)
         IN  IF ~CanOpenW(fs, dirty_file) THEN [exc |-> "IOError", ret |-> 0, fs |-> fs]
             ELSE LET fs1 == OpenW(fs, dirty_file, Stamp)
                  IN  IF NormPath(d) # root
                      THEN LET up == mark_dirty(ParentDir(d), fs1)
                           IN  [exc |-> up.exc,
                                ret |-> IF up.exc = "none" THEN 1 + up.ret ELSE 0,
                                fs |-> up.fs]
                      ELSE [exc |-> "none", ret |-> 0, fs |-> fs1]

\* _ls without the test on the first character
Ls_all(fs, d, ord) == ListDir(fs, d, ord)

\* _ls
Ls(fs, d, ord) == SelectSeq(ListDir(fs, d, ord), LAMBDA c : ~StartsWith(c, << <<".">> >>))

\* counters = dict(directories_processed=0, files_read=0, files_stat=0)
ZeroCounters == [directories_processed |-> 0, files_read |-> 0, files_stat |-> 0]

\* UpTree._load_cache on an instance whose attribute cache is held
LoadCache(held, cache_file, reset, fs) ==
    IF HasCache(held) THEN [exc |-> "none", cache |-> held]
    ELSE IF reset \/ ~PExists(fs, cache_file) THEN [exc |-> "none", cache |-> NewCache]
    ELSE IF CanLoad(fs[Resolve(fs, cache_file)].content)
         THEN [exc |-> "none",
               cache |-> DictUpdate(NewCache, Load(fs[Resolve(fs, cache_file)].content))]
         ELSE [exc |-> "UnpicklingError", cache |-> NoCache]

\* the end of update without os.remove of the marker
Finish_keepmarker(r, o) ==
    IF o.exc # "none" THEN o
    ELSE IF ~CanOpenW(o.fs, CacheFile(r)) THEN [o EXCEPT !.exc = "IOError"]
    ELSE [o EXCEPT !.fs = Sync(o.cache, CacheFile(r), o.fs),
                   !.counters.directories_processed = @ + 1]

\* the end of update without the count of the directory
Finish_nocount(r, o) ==
    IF o.exc # "none" THEN o
    ELSE IF ~CanOpenW(o.fs, CacheFile(r)) THEN [o EXCEPT !.exc = "IOError"]
    ELSE LET fs1 == Sync(o.cache, CacheFile(r), o.fs)
         IN  [o EXCEPT !.fs = IF PExists(fs1, Join(r, DirtyName))
                               THEN Remove(fs1, Join(r, DirtyName)) ELSE fs1]

\* the end of update without cache.sync()
Finish_nosync(r, o) ==
    IF o.exc # "none" THEN o
    ELSE [o EXCEPT !.fs = IF PExists(o.fs, Join(r, DirtyName))
                          THEN Remove(o.fs, Join(r, DirtyName)) ELSE o.fs,
                   !.counters.directories_processed = @ + 1]

\* the end of UpTree.update after the loop: sync, marker removal, counter
Finish(r, o) ==
    IF o.exc # "none" THEN o
    ELSE IF ~CanOpenW(o.fs, CacheFile(r)) THEN [o EXCEPT !.exc = "IOError"]
    ELSE LET fs1 == Sync(o.cache, CacheFile(r), o.fs)
         IN  [o EXCEPT !.fs = IF PExists(fs1, Join(r, DirtyName))
                               THEN Remove(fs1, Join(r, DirtyName)) ELSE fs1,
                       !.counters.directories_processed = @ + 1]

RECURSIVE update(_, _, _, _, _, _)
RECURSIVE Entries(_, _, _, _, _, _, _)

\* update without the fast path: every directory is listed again
update_nofastpath(r, held, force, counters, fs, ord) ==
    Finish(r, Entries(r, Ls(fs, r, ord),
                      Clear(LoadCache(held, CacheFile(r), TRUE, fs).cache),
                      force, counters, fs, ord))

\* UpTree.update on an instance rooted at r that holds the store `held`,
\* when os.listdir returns the entries in the order ord: the exception
\* raised ("none" when it returns), the store the instance holds afterwards,
\* the counters and the filesystem
update(r, held, force, counters, fs, ord) ==
    IF ~force /\ ~PExists(fs, Join(r, DirtyName)) /\ PExists(fs, CacheFile(r))
    THEN LET lc == LoadCache(held, CacheFile(r), FALSE, fs)
         IN  [exc |-> lc.exc, cache |-> lc.cache, counters |-> counters, fs |-> fs]
    ELSE Finish(r, Entries(r, Ls(fs, r, ord),
                           Clear(LoadCache(held, CacheFile(r), TRUE, fs).cache),
                           force, counters, fs, ord))

\* the loop `for fp in _ls(r)` of UpTree.update over the entries left
Entries(r, todo, c, force, counters, fs, ord) ==
    IF todo = <<>> THEN [exc |-> "none", cache |-> c, counters |-> counters, fs |-> fs]
    ELSE LET fp == Head(todo)
             fp_abs == Join(r, fp)
             c1 == [c EXCEPT !["files"] = @ \cup {fp_abs}]
             \* the subtree's update leaves the kind of fp_abs as it is, so
             \* P.isdir before it and P.isfile after it see the same kind
             kind == Kind(fs, fp_abs)
             s == IF kind = "dir"
                  THEN update(NormPath(AbsPath(fp_abs)), NoCache, force, counters, fs, ord)
                  ELSE [exc |-> "none", cache |-> NoCache, counters |-> counters, fs |-> fs]
         IN  IF s.exc # "none" THEN [s EXCEPT !.cache = c1]
             ELSE IF kind = "dir" /\ ~CanAddSubCache(c1, s.cache)
             THEN [s EXCEPT !.exc = "KeyError", !.cache = c1]
             ELSE LET c2 == IF kind = "dir" THEN AddSubCache(c1, s.cache) ELSE c1
                      rd == kind = "file" /\ fp \in content_cache_filenames
                      st == kind = "file" /\ fp \in mtime_cache_filenames
                      c3 == IF rd
                            THEN [c2 EXCEPT !["data"] =
                                    DictUpdate(@, fp_abs :> fs[Resolve(fs, fp_abs)].content.v)]
                            ELSE c2
                      c4 == IF st
                            THEN [c3 EXCEPT !["mtime"] =
                                    DictUpdate(@, fp_abs :> fs[Resolve(fs, fp_abs)].mtime)]
                            ELSE c3
                      n == [s.counters EXCEPT
                              !.files_read = IF rd THEN @ + 1 ELSE @,
                              !.files_stat = IF st THEN @ + 1 ELSE @]
                  IN  Entries(r, Tail(todo), c4, force, n, s.fs, ord)

\* ------------------------------------------------------------------------
\* The read accessors: the exception raised ("none" when it returns) and the
\* value returned
\* ------------------------------------------------------------------------

Raise(e) == [exc |-> e, val |-> {}]
Return(v) == [exc |-> "none", val |-> v]

\* UpTree.get_files
get_files(c) ==
    IF ~HasCache(c) THEN Raise("AttributeError")
    ELSE Return(c["files"])

\* open_and_read that answers the empty string for a path it does not have
open_and_read_default(c, filepath) ==
    IF ~IsAbs(filepath) THEN Raise("AssertionError")
    ELSE IF ~HasCache(c) THEN Raise("AttributeError")
    ELSE IF "data" \notin DOMAIN c \/ filepath \notin DOMAIN c["data"] THEN Return("")
    ELSE Return(c["data"][filepath])

\* UpTree.open_and_read
open_and_read(c, filepath) ==
    IF ~IsAbs(filepath) THEN Raise("AssertionError")
    ELSE IF ~HasCache(c) THEN Raise("AttributeError")
    ELSE IF "data" \notin DOMAIN c \/ filepath \notin DOMAIN c["data"] THEN Raise("IOError")
    ELSE Return(c["data"][filepath])

\* UpTree.open: a StringIO over what open_and_read returns
open(c, filepath) ==
    IF open_and_read(c, filepath).exc # "none" THEN open_and_read(c, filepath)
    ELSE Return([StringIO |-> open_and_read(c, filepath).val])

\* UpTree.exists
exists(c, filepath) ==
    IF ~IsAbs(filepath) THEN Raise("AssertionError")
    ELSE IF ~HasCache(c) THEN Raise("AttributeError")
    ELSE Return(filepath \in c["files"])

\* UpTree.getmtime
getmtime(c, filepath) ==
    IF ~IsAbs(filepath) THEN Raise("AssertionError")
    ELSE IF ~HasCache(c) THEN Raise("AttributeError")
    ELSE IF "mtime" \notin DOMAIN c \/ filepath \notin DOMAIN c["mtime"] THEN Raise("IOError")
    ELSE Return(c["mtime"][filepath])

\* ------------------------------------------------------------------------
\* The tree the instances are rooted in, and the inputs of the operations
\* ------------------------------------------------------------------------

MaxChanges == 1
MaxTime == 2

Contents == {"x", "y"}
Times == 1..MaxTime

\* the directories of the tree: /r, /r/a, /r/a/b, the hidden /r/.h, and
\* /r2, a sibling of the root whose name starts with the root's name
DirA == Join(root, << <<"a">> >>)
DirB == Join(DirA, << <<"b">> >>)
DirH == Join(root, << <<".", "h">> >>)
DirR2 == << <<>>, <<"r", "2">> >>
Dirs == {Slash, root, DirA, DirB, DirH, DirR2}

\* the places where a file may be
FilePaths == { Join(root, << <<"i">> >>), Join(DirA, << <<"l">> >>),
               Join(DirB, << <<"i">> >>), Join(DirH, << <<"i">> >>) }

\* the arguments mark_dirty is called with for a path of the tree
TreeInputs == {root, DirA, DirB, DirH} \cup FilePaths

\* those and arguments that name nothing under the root: a relative path,
\* an unrelated path, the sibling /r2, "/r/../r2", and "/r/a/"
MarkInputs == TreeInputs \cup
              { << <<"a">> >>, << <<>>, <<"o">> >>, DirR2,
                << <<>>, <<"r">>, DotDot, <<"r", "2">> >>,
                << <<>>, <<"r">>, <<"a">>, <<>> >> }

\* the orders in which os.listdir may return the names of the tree: the
\* entries of /r are a and i, those of /r/a are b and l, so these four
\* orders give every directory every order of its entries
NameA == << <<"a">> >>
NameB == << <<"b">> >>
NameI == << <<"i">> >>
NameL == << <<"l">> >>
NameH == << <<".", "h">> >>
Hidden == <<NameH, DirtyName, CacheName>>
AllOrders == { <<NameA, NameI, NameB, NameL>> \o Hidden,
               <<NameI, NameA, NameB, NameL>> \o Hidden,
               <<NameA, NameI, NameL, NameB>> \o Hidden,
               <<NameI, NameA, NameL, NameB>> \o Hidden }

\* update raises only when a cache file does not load.  When every cache
\* file loads, the loop runs to its end in every order and builds the same
\* store, so one order stands for all (OrderIrrelevant checks this).
Orders(fs) ==
    IF \A q \in DOMAIN fs : fs[q].content.t # "garbage"
    THEN {CHOOSE ord \in AllOrders : TRUE}
    ELSE AllOrders

\* the arguments of the read accessors
QueryPaths == { Join(root, << <<"i">> >>), Join(DirA, << <<"l">> >>), << <<"i">> >> }

\* fs: the filesystem; cache: the attribute `cache` of the UpTree object
\* `uptree` (NoCache when it has none); last: the last operation with its
\* result; updated: whether an update of uptree has returned normally;
\* nchanges: the changes made by other programs so far; run: where an update
\* and a mark_dirty that are under way stand, when their steps are told apart
\* (see Idle)
VARIABLES fs, cache, last, updated, nchanges, run

vars == <<fs, cache, last, updated, nchanges, run>>

\* what is remembered of an operation: its name, its path argument, the
\* force flag, the exception raised ("none" when it returned), the number
\* returned by mark_dirty, the counters, for an accessor the exception it
\* raises on each argument ("none" where it returns), and the operations it
\* directly followed (see Follows)
NoReads == <<>>

Op(op, arg, force, exc, ret, counters, val, after) ==
    [op |-> op, arg |-> arg, force |-> force, exc |-> exc, ret |-> ret,
     counters |-> counters, val |-> val, after |-> after]

Tag(l) == [op |-> l.op, arg |-> l.arg, force |-> l.force, exc |-> l.exc]

\* the operations an operation is remembered to follow: a mark_dirty
\* remembers the file change before it, an update remembers the mark_dirty
\* (with its file change), the update or the damage to a cache file before it
Follows(op) ==
    IF op = "mark_dirty" /\ last.op \in {"write", "delete"} THEN <<Tag(last)>>
    ELSE IF op = "update" /\ last.op = "mark_dirty" THEN <<Tag(last)>> \o last.after
    ELSE IF op = "update" /\ last.op \in {"update", "corrupt"} THEN <<Tag(last)>>
    ELSE <<>>

Did(op, arg, force, exc, ret, counters, val) ==
    last' = Op(op, arg, force, exc, ret, counters, val, Follows(op))

\* no update and no mark_dirty is under way.  stack: the calls of update
\* that are under way, the call on root first, each with its directory r,
\* the store c of its instance, the entries todo of its loop and the place
\* pc it stands at; force, counters, ord: the arguments of these calls and
\* the order of os.listdir; fs0: the filesystem when the call on root began;
\* alone: no other program took a step since; mark: the directory a
\* mark_dirty under way writes its marker into next; given: the mapping a
\* caller passed as `counters` to the last update that took one, as it was
\* before the call and as it is after it
Idle ==
    [stack |-> <<>>, force |-> FALSE, counters |-> ZeroCounters, ord |-> <<>>,
     fs0 |-> <<>>, alone |-> TRUE, mark |-> <<>>,
     given |-> [before |-> ZeroCounters, after |-> ZeroCounters]]

\* the tree a program starts on: the directories and the files
InitTree(present) ==
    [q \in Dirs \cup present |-> IF q \in Dirs THEN DirNode ELSE FileNode(Text("x"), 1)]

Init ==
    /\ fs = InitTree(FilePaths)
    /\ cache = NoCache
    /\ last = Op("none", EmptyStr, FALSE, "none", 0, ZeroCounters, NoReads, <<>>)
    /\ updated = FALSE
    /\ nchanges = 0
    /\ run = Idle

\* another program creates or rewrites the file f
WriteFile(f, c, m) ==
    /\ nchanges < MaxChanges
    /\ PIsDir(fs, DirName(f))
    /\ f \in DOMAIN fs => fs[f] # FileNode(Text(c), m)
    /\ fs' = (f :> FileNode(Text(c), m)) @@ fs
    /\ nchanges' = nchanges + 1
    /\ Did("write", f, FALSE, "none", 0, ZeroCounters, NoReads)
    /\ UNCHANGED <<cache, updated, run>>

\* another program deletes the file f
DeleteFile(f) ==
    /\ nchanges < MaxChanges
    /\ PIsFile(fs, f)
    /\ fs' = Remove(fs, f)
    /\ nchanges' = nchanges + 1
    /\ Did("delete", f, FALSE, "none", 0, ZeroCounters, NoReads)
    /\ UNCHANGED <<cache, updated, run>>

\* the cache file of the directory d is damaged
Corrupt(d) ==
    /\ nchanges < MaxChanges
    /\ PIsFile(fs, CacheFile(d))
    /\ CanLoad(fs[CacheFile(d)].content)
    /\ fs' = [fs EXCEPT ![CacheFile(d)].content = [t |-> "garbage", v |-> {}]]
    /\ nchanges' = nchanges + 1
    /\ Did("corrupt", d, FALSE, "none", 0, ZeroCounters, NoReads)
    /\ UNCHANGED <<cache, updated, run>>

\* uptree.mark_dirty(p)
MarkDirty(p) ==
    \E m \in {mark_dirty(p, fs)} :
        /\ fs' = m.fs
        /\ Did("mark_dirty", p, FALSE, m.exc, m.ret, ZeroCounters, NoReads)
        /\ UNCHANGED <<cache, updated, nchanges, run>>

\* uptree.update(force)
Update(force) ==
    \E o \in {update(root, cache, force, ZeroCounters, fs, ord) : ord \in Orders(fs)} :
        /\ fs' = o.fs
        /\ cache' = o.cache
        /\ Did("update", EmptyStr, force, o.exc, 0, o.counters, NoReads)
        /\ updated' = (updated \/ o.exc = "none")
        /\ UNCHANGED <<nchanges, run>>

\* the command line in another process: UpTree(root, ...).update(force)
CliUpdate(force) ==
    \E o \in {update(root, NoCache, force, ZeroCounters, fs, ord) : ord \in Orders(fs)} :
        /\ fs' = o.fs
        /\ Did("cli_update", EmptyStr, force, o.exc, 0, o.counters, NoReads)
        /\ UNCHANGED <<cache, updated, nchanges, run>>

Accessors == {"get_files", "exists", "open", "open_and_read", "getmtime"}

\* the accessor `name` of uptree on the argument p
Access(name, c, p) ==
    CASE name = "get_files" -> get_files(c)
      [] name = "exists" -> exists(c, p)
      [] name = "open" -> open(c, p)
      [] name = "open_and_read" -> open_and_read(c, p)
      [] name = "getmtime" -> getmtime(c, p)

\* the caller reads through one accessor of uptree, on every argument.  The
\* accessors read only uptree.cache, which only update assigns, so reading
\* right after an update (or before any operation) meets every store an
\* accessor can meet.
Read(name) ==
    /\ last.op \in {"none", "update"}
    /\ Did(name, EmptyStr, FALSE, "none", 0, ZeroCounters,
           [p \in QueryPaths |-> Access(name, cache, p).exc])
    /\ UNCHANGED <<fs, cache, updated, nchanges, run>>

Next ==
    \/ \E f \in FilePaths, c \in Contents, m \in Times : WriteFile(f, c, m)
    \/ \E f \in FilePaths : DeleteFile(f)
    \/ \E d \in Dirs : Corrupt(d)
    \/ \E p \in TreeInputs : MarkDirty(p)
    \/ \E force \in BOOLEAN : Update(force)
    \/ \E force \in BOOLEAN : CliUpdate(force)
    \/ \E name \in Accessors : Read(name)

Spec == Init /\ [][Next]_vars

\* mark_dirty alone, on every argument, from every tree
InitMark ==
    /\ \E present \in SUBSET FilePaths : fs = InitTree(present)
    /\ cache = NoCache
    /\ last = Op("none", EmptyStr, FALSE, "none", 0, ZeroCounters, NoReads, <<>>)
    /\ updated = FALSE
    /\ nchanges = 0
    /\ run = Idle

NextMark == \E p \in MarkInputs : MarkDirty(p)

SpecMark == InitMark /\ [][NextMark]_vars

\* ------------------------------------------------------------------------
\* update and mark_dirty step by step, for what happens when another program
\* runs between their steps or the call stops on an error
\* ------------------------------------------------------------------------

\* the start of update without the fast path
Enter_nofastpath(r, held, force, f, ord) ==
    [exc |-> "none",
     frame |-> [r |-> r, c |-> Clear(LoadCache(held, CacheFile(r), TRUE, f).cache),
                todo |-> Ls(f, r, ord), pc |-> "loop"]]

\* the start of UpTree.update on an instance rooted at r that holds `held`:
\* the fast path loads the store and the call is done; otherwise the store
\* is emptied and the directory listed
Enter(r, held, force, f, ord) ==
    IF ~force /\ ~PExists(f, Join(r, DirtyName)) /\ PExists(f, CacheFile(r))
    THEN LET lc == LoadCache(held, CacheFile(r), FALSE, f)
         IN  [exc |-> lc.exc,
              frame |-> [r |-> r, c |-> lc.cache, todo |-> <<>>, pc |-> "done"]]
    ELSE [exc |-> "none",
          frame |-> [r |-> r, c |-> Clear(LoadCache(held, CacheFile(r), TRUE, f).cache),
                     todo |-> Ls(f, r, ord), pc |-> "loop"]]

Top == run.stack[Len(run.stack)]
SetTop(fr) == [run.stack EXCEPT ![Len(run.stack)] = fr]

\* an exception leaves update: every call under way ends, the instance on
\* root keeps the store it has
Raised(exc, store, f) ==
    /\ fs' = f
    /\ cache' = store
    /\ run' = [Idle EXCEPT !.mark = run.mark]
    /\ last' = Op("update", EmptyStr, run.force, exc, 0, run.counters, NoReads, <<>>)
    /\ UNCHANGED updated

\* uptree.update(force) begins
StepBegin(force) ==
    /\ run.stack = <<>>
    /\ \E ord \in Orders(fs) : \E e \in {Enter(root, cache, force, fs, ord)} :
          IF e.exc = "none"
          THEN /\ run' = [run EXCEPT !.stack = <<e.frame>>, !.force = force,
                                     !.counters = ZeroCounters, !.ord = ord,
                                     !.fs0 = fs, !.alone = TRUE]
               /\ UNCHANGED <<fs, cache, last, updated, nchanges>>
          ELSE /\ cache' = e.frame.c
               /\ last' = Op("update", EmptyStr, force, e.exc, 0, ZeroCounters, NoReads, <<>>)
               /\ UNCHANGED <<fs, updated, nchanges, run>>

\* one turn of the loop `for fp in _ls(r)`: the entry is added to files, a
\* directory is entered, a file is read and stat-ed
StepEntry ==
    /\ run.stack # <<>>
    /\ Top.pc = "loop"
    /\ Top.todo # <<>>
    /\ LET fp == Head(Top.todo)
           fp_abs == Join(Top.r, fp)
           kind == Kind(fs, fp_abs)
           me == [Top EXCEPT !.c["files"] = @ \cup {fp_abs}, !.todo = Tail(@)]
           rd == kind = "file" /\ fp \in content_cache_filenames
           st == kind = "file" /\ fp \in mtime_cache_filenames
           c3 == IF rd
                 THEN [me.c EXCEPT !["data"] =
                         DictUpdate(@, fp_abs :> fs[Resolve(fs, fp_abs)].content.v)]
                 ELSE me.c
           c4 == IF st
                 THEN [c3 EXCEPT !["mtime"] =
                         DictUpdate(@, fp_abs :> fs[Resolve(fs, fp_abs)].mtime)]
                 ELSE c3
       IN  IF kind = "dir"
           THEN \E e \in {Enter(NormPath(AbsPath(fp_abs)), NoCache, run.force, fs, run.ord)} :
                   IF e.exc = "none"
                   THEN /\ run' = [run EXCEPT !.stack = SetTop(me) \o <<e.frame>>]
                        /\ UNCHANGED <<fs, cache, last, updated, nchanges>>
                   ELSE Raised(e.exc, SetTop(me)[1].c, fs) /\ UNCHANGED nchanges
           ELSE /\ run' = [run EXCEPT !.stack = SetTop([me EXCEPT !.c = c4]),
                                      !.counters.files_read = IF rd THEN @ + 1 ELSE @,
                                      !.counters.files_stat = IF st THEN @ + 1 ELSE @]
                /\ UNCHANGED <<fs, cache, last, updated, nchanges>>

\* the update of a subdirectory has returned: add_sub_cache, _destroy_cache
StepMerge ==
    /\ Len(run.stack) > 1
    /\ Top.pc = "done"
    /\ LET parent == run.stack[Len(run.stack) - 1]
           below == SubSeq(run.stack, 1, Len(run.stack) - 2)
       IN  IF CanAddSubCache(parent.c, Top.c)
           THEN /\ run' = [run EXCEPT !.stack =
                             below \o <<[parent EXCEPT !.c = AddSubCache(@, Top.c)]>>]
                /\ UNCHANGED <<fs, cache, last, updated, nchanges>>
           ELSE Raised("KeyError", run.stack[1].c, fs) /\ UNCHANGED nchanges

\* the loop is over: cache.sync()
StepSync ==
    /\ run.stack # <<>>
    /\ Top.pc = "loop"
    /\ Top.todo = <<>>
    /\ IF CanOpenW(fs, CacheFile(Top.r))
       THEN /\ fs' = Sync(Top.c, CacheFile(Top.r), fs)
            /\ run' = [run EXCEPT !.stack = SetTop([Top EXCEPT !.pc = "remove"])]
            /\ UNCHANGED <<cache, last, updated, nchanges>>
       ELSE Raised("IOError", run.stack[1].c, fs) /\ UNCHANGED nchanges

\* the marker is removed if it is there, the directory counted
StepRemove ==
    /\ run.stack # <<>>
    /\ Top.pc = "remove"
    /\ fs' = IF PExists(fs, Join(Top.r, DirtyName))
             THEN Remove(fs, Join(Top.r, DirtyName)) ELSE fs
    /\ run' = [run EXCEPT !.stack = SetTop([Top EXCEPT !.pc = "done"]),
                          !.counters.directories_processed = @ + 1]
    /\ UNCHANGED <<cache, last, updated, nchanges>>

\* uptree.update returns its counters
StepReturn ==
    /\ Len(run.stack) = 1
    /\ Top.pc = "done"
    /\ cache' = Top.c
    /\ updated' = TRUE
    /\ run' = [Idle EXCEPT !.mark = run.mark]
    /\ last' = Op("update", EmptyStr, run.force, "none", 0, run.counters, NoReads, <<>>)
    /\ UNCHANGED <<fs, nchanges>>

\* the operating system refuses what update does next: reading a file,
\* writing the cache file, removing the marker.  A write of the cache file
\* that fails part-way (torn) leaves a file pickle cannot load.  Such a
\* refusal counts among the changes other programs make
StepAbort(torn) ==
    /\ run.stack # <<>>
    /\ nchanges < MaxChanges
    /\ nchanges' = nchanges + 1
    /\ \/ Top.pc = "loop" /\ ~torn
       \/ Top.pc = "loop" /\ torn /\ Top.todo = <<>> /\ CanOpenW(fs, CacheFile(Top.r))
       \/ Top.pc = "remove" /\ ~torn /\ PExists(fs, Join(Top.r, DirtyName))
    /\ Raised("IOError", run.stack[1].c,
              IF torn THEN OpenW(fs, CacheFile(Top.r), [t |-> "garbage", v |-> {}]) ELSE fs)

\* another program rewrites or creates the file f and calls
\* mark_dirty(dirname(f)), which writes its first marker in a later step
StepWrite(f, c, m) ==
    /\ nchanges < MaxChanges
    /\ run.mark = <<>>
    /\ PIsDir(fs, DirName(f))
    /\ f \in DOMAIN fs => fs[f] # FileNode(Text(c), m)
    /\ fs' = (f :> FileNode(Text(c), m)) @@ fs
    /\ nchanges' = nchanges + 1
    /\ run' = [run EXCEPT !.mark = <<DirName(f)>>, !.alone = FALSE]
    /\ UNCHANGED <<cache, last, updated>>

\* another program deletes the file f and calls mark_dirty(dirname(f))
StepDelete(f) ==
    /\ nchanges < MaxChanges
    /\ run.mark = <<>>
    /\ PIsFile(fs, f)
    /\ fs' = Remove(fs, f)
    /\ nchanges' = nchanges + 1
    /\ run' = [run EXCEPT !.mark = <<DirName(f)>>, !.alone = FALSE]
    /\ UNCHANGED <<cache, last, updated>>

\* mark_dirty writes the marker of one directory and goes on to the parent
StepMark ==
    /\ run.mark # <<>>
    /\ CanOpenW(fs, Join(run.mark[1], DirtyName))
    /\ fs' = OpenW(fs, Join(run.mark[1], DirtyName), Stamp)
    /\ run' = [run EXCEPT !.mark = IF NormPath(run.mark[1]) # root
                                   THEN <<ParentDir(run.mark[1])>> ELSE <<>>,
                          !.alone = FALSE]
    /\ UNCHANGED <<cache, last, updated, nchanges>>

UpdateStep ==
    \/ \E force \in BOOLEAN : StepBegin(force)
    \/ StepEntry
    \/ StepMerge
    \/ StepSync
    \/ StepRemove
    \/ StepReturn
    \/ \E torn \in BOOLEAN : StepAbort(torn)

OtherStep ==
    \/ \E f \in FilePaths, c \in Contents, m \in Times : StepWrite(f, c, m)
    \/ \E f \in FilePaths : StepDelete(f)
    \/ StepMark

\* the steps of the instance and of the other program in any order
NextSteps == UpdateStep \/ OtherStep

SpecSteps == Init /\ [][NextSteps]_vars

\* the same steps when no call runs while another is under way
NextSeq ==
    \/ run.mark = <<>> /\ UpdateStep
    \/ run.stack = <<>> /\ OtherStep

SpecSeq == Init /\ [][NextSeq]_vars

\* a call of update that no other step fell into ends as update says
StepsAgree ==
    [][(run.stack # <<>> /\ run'.stack = <<>> /\ run.alone
            /\ last'.exc \in {"none", "UnpicklingError", "KeyError"}) =>
         LET o == update(root, cache, run.force, ZeroCounters, run.fs0, run.ord)
         IN  /\ o.exc = last'.exc
             /\ o.cache = cache'
             /\ o.fs = fs'
             /\ last'.exc = "none" => o.counters = last'.counters]_vars

\* wherever every cache file loads, update gives one result in all orders
OrderIrrelevant ==
    (\A q \in DOMAIN fs : fs[q].content.t # "garbage") =>
        \A force \in BOOLEAN : \A held \in {cache, NoCache} :
            \A o1, o2 \in AllOrders :
                update(root, held, force, ZeroCounters, fs, o1)
                    = update(root, held, force, ZeroCounters, fs, o2)

\* ------------------------------------------------------------------------
\* What the tree is, for the statements below
\* ------------------------------------------------------------------------

\* q is root or lies below it, component by component
Under(q, d) == Len(q) >= Len(d) /\ SubSeq(q, 1, Len(d)) = d

\* q lies below root and one of its components below root starts with '.'
HiddenPath(q) ==
    \E k \in (Len(root) + 1)..Len(q) : q[k] # <<>> /\ q[k][1] = "."

\* the files and directories reachable from root through non-hidden names
Reachable(f) == {q \in DOMAIN f : q # root /\ Under(q, root) /\ ~HiddenPath(q)}

\* the store that shows the tree as it is
Truth(f) ==
    [k \in {"files", "data", "mtime"} |->
        IF k = "files" THEN Reachable(f)
        ELSE IF k = "data"
        THEN [q \in {q \in Reachable(f) :
                        f[q].kind = "file" /\ BaseName(q) \in content_cache_filenames}
                 |-> f[q].content.v]
        ELSE [q \in {q \in Reachable(f) :
                        f[q].kind = "file" /\ BaseName(q) \in mtime_cache_filenames}
                 |-> f[q].mtime]]

\* the store c shows the file path q as it is in the filesystem f
Reflects(c, f, q) ==
    /\ HasCache(c)
    /\ q \in c["files"] <=> q \in DOMAIN f
    /\ q \in DOMAIN c["data"] <=> (q \in DOMAIN f /\ BaseName(q) \in content_cache_filenames)
    /\ q \in DOMAIN c["data"] => c["data"][q] = f[q].content.v
    /\ q \in DOMAIN c["mtime"] <=> (q \in DOMAIN f /\ BaseName(q) \in mtime_cache_filenames)
    /\ q \in DOMAIN c["mtime"] => c["mtime"][q] = f[q].mtime

\* the directories that hold a .dirty marker
Markers(f) == {d \in DOMAIN f : Join(d, DirtyName) \in DOMAIN f}

\* the directories from d up to root, both included
UpToRoot(d) == {SubSeq(d, 1, k) : k \in Len(root)..Len(d)}

\* ------------------------------------------------------------------------
\* C1
\* ------------------------------------------------------------------------

\* last is an update() without force that returned, directly after a
\* mark_dirty, itself directly after a change of the file f
ChangedMarkedUpdated(f) ==
    /\ last.op = "update" /\ ~last.force /\ last.exc = "none"
    /\ Len(last.after) = 2
    /\ last.after[1].op = "mark_dirty"
    /\ last.after[1].arg \in {DirName(f), f}
    /\ last.after[2].op \in {"write", "delete"}
    /\ last.after[2].arg = f

MarkedUpdated(p) ==
    /\ last.op = "update" /\ last.exc = "none"
    /\ Len(last.after) >= 1
    /\ last.after[1].op = "mark_dirty"
    /\ last.after[1].arg = p
    /\ last.after[1].exc = "none"

\* C2 as claimed: after mark_dirty(p) for any directory p under root and then
\* update(), no directory from p up to root holds a .dirty marker.
C2_AsClaimed ==
    \A p \in {root, DirA, DirB, DirH} :
        MarkedUpdated(p) => Markers(fs) \cap UpToRoot(p) = {}

\* C2 as amended: the same for a directory p reached through non-hidden
\* names, after an update() that returned normally.
C2_MarkersRemoved ==
    \A p \in {root, DirA, DirB, DirH} :
        (MarkedUpdated(p) /\ ~HiddenPath(p)) => Markers(fs) \cap UpToRoot(p) = {}

\* C2 happens: /r/a/b was marked and the update rebuilt the three levels
C2_Witness ==
    /\ MarkedUpdated(DirB)
    /\ ~last.force
    /\ last.counters.directories_processed = 3
    /\ Markers(fs) \cap UpToRoot(DirB) = {}

\* ------------------------------------------------------------------------
\* C3
\* ------------------------------------------------------------------------

\* the directory mark_dirty(p) is aimed at: p, or the directory of the file p
Target(f, p) == IF f[Resolve(f, p)].kind = "file" THEN DirName(Resolve(f, p)) ELSE Resolve(f, p)

\* p names an existing file or directory that is root or lies under it
ExistsUnderRoot(f, p) == IsAbs(p) /\ Resolve(f, p) # NoEnt /\ Under(Resolve(f, p), root)

\* C3: mark_dirty(p), for p an existing file or directory under root whose
\* target directory lies k levels below root, returns k and adds the marker
\* of the target directory and of each of its k ancestors up to root, and
\* changes nothing else.
C3_MarkDirtyChain ==
    [][\A p \in MarkInputs :
         (last'.op = "mark_dirty" /\ last'.arg = p /\ ExistsUnderRoot(fs, p)) =>
            /\ last'.exc = "none"
            /\ last'.ret = Len(Target(fs, p)) - Len(root)
            /\ DOMAIN fs' = DOMAIN fs \cup {Join(d, DirtyName) : d \in UpToRoot(Target(fs, p))}
            /\ \A q \in DOMAIN fs : BaseName(q) # DirtyName => fs'[q] = fs[q]]_vars

\* C3 happens: the file /r/a/b/i was given, three markers are there and 2
\* was returned
C3_Witness ==
    /\ last.op = "mark_dirty"
    /\ last.arg = Join(DirB, NameI)
    /\ last.exc = "none"
    /\ last.ret = 2
    /\ Markers(fs) = {root, DirA, DirB}

\* ------------------------------------------------------------------------
\* C4
\* ------------------------------------------------------------------------

\* update() without force lists the directory d again
NeedsRebuild(f, d) == PExists(f, Join(d, DirtyName)) \/ ~PExists(f, CacheFile(d))

\* the directories reachable from root through non-hidden names, and root
TreeDirs(f) == {d \in DOMAIN f : f[d].kind = "dir" /\ Under(d, root) /\ ~HiddenPath(d)}

\* the directories an update() without force of root lists again
Rebuilt(f) == {d \in TreeDirs(f) : \A x \in UpToRoot(d) : NeedsRebuild(f, x)}

\* the directories such an update serves from their cache file
Served(f) == {d \in TreeDirs(f) \ {root} : ~NeedsRebuild(f, d) /\ DirName(d) \in Rebuilt(f)}

\* the store the cache file of d holds
Persisted(f, d) == DictUpdate(NewCache, Load(f[CacheFile(d)].content))

\* what the store c holds about the paths below d
Part(c, d) ==
    [k \in {"files", "data", "mtime"} |->
        IF k = "files" THEN {q \in c["files"] : Under(q, d) /\ q # d}
        ELSE [q \in {q \in DOMAIN c[k] : Under(q, d)} |-> c[k][q]]]

\* an update() without force of root that returns and lists root again
RebuildStep ==
    /\ last'.op = "update" /\ ~last'.force /\ last'.exc = "none"
    /\ NeedsRebuild(fs, root)

\* C4 as claimed: when update() without force rebuilds root, every directory
\* below it is listed again and the store shows every file below root as it
\* is.
C4_AsClaimed ==
    [][RebuildStep =>
        /\ last'.counters.directories_processed = Cardinality(TreeDirs(fs))
        /\ \A q \in FilePaths : ~HiddenPath(q) => Reflects(cache', fs', q)]_vars

\* C4 as amended: when update() without force rebuilds a directory, a
\* directory below it is listed again only if it has a marker or no cache
\* file, and so has every directory between; the store shows the files of
\* the directories listed again as they are, and for a directory that has a
\* cache file and no marker it holds what that cache file holds.
C4_RebuildStopsAtCleanCache ==
    [][RebuildStep =>
        /\ last'.counters.directories_processed = Cardinality(Rebuilt(fs))
        /\ \A q \in FilePaths :
              (~HiddenPath(q) /\ DirName(q) \in Rebuilt(fs)) => Reflects(cache', fs', q)
        /\ \A d \in Served(fs) : Part(cache', d) = Persisted(fs, d)]_vars

\* C4 happens: root was listed again, /r/a was served from its cache file,
\* and the store is not the tree
C4_Witness ==
    /\ last.op = "update" /\ ~last.force /\ last.exc = "none"
    /\ last.counters.directories_processed = 1
    /\ cache # Truth(fs)
    /\ Part(cache, DirA) = Persisted(fs, DirA)

\* ------------------------------------------------------------------------
\* C5
\* ------------------------------------------------------------------------

\* C5: an update() without force right after an update() that returned, with
\* no change and no mark_dirty between them, returns with the three counters
\* 0 and leaves the store and the filesystem as they were.
C5_SecondUpdateFastPath ==
    [][(last.op = "update" /\ last.exc = "none" /\ last'.op = "update" /\ ~last'.force) =>
        /\ last'.exc = "none"
        /\ last'.counters = ZeroCounters
        /\ cache' = cache
        /\ fs' = fs]_vars

\* C5 happens: an update that returned was followed by an update without
\* force, the store is there and shows the tree
C5_Witness ==
    /\ last.op = "update" /\ ~last.force /\ last.exc = "none"
    /\ last.after = <<[op |-> "update", arg |-> EmptyStr, force |-> FALSE, exc |-> "none"]>>
    /\ last.counters = ZeroCounters
    /\ cache = Truth(fs)

\* ------------------------------------------------------------------------
\* C6
\* ------------------------------------------------------------------------

\* C6 as claimed: an update() without force that finds no marker at root and
\* a cache file at root leaves the instance with the store that file holds.
C6_AsClaimed ==
    [][(/\ last'.op = "update" /\ ~last'.force
        /\ ~NeedsRebuild(fs, root)
        /\ CanLoad(fs[CacheFile(root)].content))
       => (last'.exc = "none" /\ cache' = Persisted(fs', root))]_vars

\* ------------------------------------------------------------------------
\* C7
\* ------------------------------------------------------------------------

\* no directory of the tree has a cache file
NoCacheFiles(f) == \A d \in TreeDirs(f) : ~PExists(f, CacheFile(d))

\* C7: after update(force=True) of root, or update() of a tree without any
\* cache file, whatever markers and caches were there: files is the set of
\* paths reachable through non-hidden names, data maps the reachable files
\* named in content_cache_filenames to their content, mtime those named in
\* mtime_cache_filenames to their modification time.
C7_FullRebuildExact ==
    [][(last'.op = "update" /\ last'.exc = "none" /\ (last'.force \/ NoCacheFiles(fs)))
        => cache' = Truth(fs')]_vars

\* C7 happens: a forced update returned right after the cache file of /r/a
\* was damaged, on a tree that has a hidden directory: five paths in the
\* store, two contents and one mtime
C7_Witness ==
    /\ last.op = "update" /\ last.force /\ last.exc = "none"
    /\ last.counters = [directories_processed |-> 3, files_read |-> 2, files_stat |-> 1]
    /\ last.after = <<[op |-> "corrupt", arg |-> DirA, force |-> FALSE, exc |-> "none"]>>
    /\ Cardinality(cache["files"]) = 5
    /\ DOMAIN cache["data"] = {Join(root, NameI), Join(DirB, NameI)}
    /\ DOMAIN cache["mtime"] = {Join(DirA, NameL)}
    /\ PExists(fs, Join(DirH, NameI))

\* ------------------------------------------------------------------------
\* C8
\* ------------------------------------------------------------------------

\* p is relative, or names neither root nor a path below it
NotUnderRoot(p) == ~IsAbs(p) \/ ~Under(NormPath(p), root)

\* C8 as claimed: mark_dirty(p) with p not under root raises and has written
\* no marker.
C8_AsClaimed ==
    [][\A p \in MarkInputs :
         (last'.op = "mark_dirty" /\ last'.arg = p /\ NotUnderRoot(p))
            => (last'.exc # "none" /\ fs' = fs)]_vars

\* ------------------------------------------------------------------------
\* C9
\* ------------------------------------------------------------------------

\* C9 as claimed: when the cache file of root cannot be deserialized and
\* root has no marker, update() without force raises and leaves the instance
\* without a store.
C9_AsClaimed ==
    [][(/\ last'.op = "update" /\ ~last'.force
        /\ ~NeedsRebuild(fs, root)
        /\ ~CanLoad(fs[CacheFile(root)].content))
       => (last'.exc # "none" /\ cache' = NoCache)]_vars

\* ------------------------------------------------------------------------
\* C10
\* ------------------------------------------------------------------------

\* C10 as claimed: on an instance on which no update has returned normally,
\* each accessor raises on every argument.
C10_AsClaimed ==
    (last.op \in Accessors /\ ~updated)
        => \A p \in QueryPaths : last.val[p] # "none"

\* ------------------------------------------------------------------------
\* C11
\* ------------------------------------------------------------------------

\* the part of the store the accessor `name` looks the path up in
LookedUp(name) == IF name = "getmtime" THEN "mtime" ELSE "data"

\* C11: once an update has returned, open_and_read(p), open(p) and
\* getmtime(p) for an absolute p that data, respectively mtime, does not
\* have raise the not-found error, which is not the error raised without a
\* store, and leave the store as it was.
C11_NotFoundRaises ==
    [][(last'.op \in {"open_and_read", "open", "getmtime"} /\ updated) =>
        /\ cache' = cache
        /\ \A p \in QueryPaths :
              (IsAbs(p) /\ p \notin DOMAIN cache[LookedUp(last'.op)]) =>
                 /\ last'.val[p] = "IOError"
                 /\ last'.val[p] # Access(last'.op, NoCache, p).exc]_vars

\* C11 happens: open_and_read was called on /r/a/l, which is in files and
\* not in data, and on /r/i, which is in data
C11_Witness ==
    /\ last.op = "open_and_read" /\ updated
    /\ Join(DirA, NameL) \in cache["files"]
    /\ Join(DirA, NameL) \notin DOMAIN cache["data"]
    /\ last.val[Join(DirA, NameL)] = "IOError"
    /\ last.val[Join(root, NameI)] = "none"

\* ------------------------------------------------------------------------
\* C12
\* ------------------------------------------------------------------------

\* the paths the store c names
PathsOf(c) ==
    c["files"] \cup (IF "data" \in DOMAIN c THEN DOMAIN c["data"] ELSE {})
               \cup (IF "mtime" \in DOMAIN c THEN DOMAIN c["mtime"] ELSE {})

\* the directories whose cache file deserializes
Loadable(f) ==
    {d \in DOMAIN f : f[d].kind = "dir" /\ PExists(f, CacheFile(d))
                      /\ CanLoad(f[CacheFile(d)].content)}

\* C12: no path with a component below root that starts with '.' is in
\* files, data or mtime of the store an instance holds or of a persisted
\* store: not the markers nor the cache files, not a hidden file with a name
\* in an allow-list, nothing below a hidden directory.
C12_NoHiddenPaths ==
    /\ HasCache(cache) => \A q \in PathsOf(cache) : ~HiddenPath(q)
    /\ \A d \in Loadable(fs) : \A q \in PathsOf(Persisted(fs, d)) : ~HiddenPath(q)

\* C12 happens: the store was rebuilt while the root held a marker, whose
\* name is among the names to read, a cache file and a hidden directory
\* with a file in it
C12_Witness ==
    /\ last.op = "update" /\ last.exc = "none"
    /\ last.counters.directories_processed = 3
    /\ Len(last.after) >= 1 /\ last.after[1].op = "mark_dirty"
    /\ DirtyName \in content_cache_filenames
    /\ PExists(fs, Join(DirH, NameI))
    /\ PExists(fs, Join(DirH, DirtyName))
    /\ PExists(fs, CacheFile(root))
    /\ Cardinality(cache["files"]) = 5

\* ------------------------------------------------------------------------
\* C13
\* ------------------------------------------------------------------------

\* the keys of data and of mtime are among files
KeysWithinFiles(c) ==
    /\ "data" \in DOMAIN c => DOMAIN c["data"] \subseteq c["files"]
    /\ "mtime" \in DOMAIN c => DOMAIN c["mtime"] \subseteq c["files"]

\* C13: in the store the instance holds, in the store of every call of
\* update under way, after each entry and after each merge of a subdirectory
\* that was rebuilt or loaded, and in every persisted store, the keys of
\* data and the keys of mtime are among files.
C13_KeysWithinFiles ==
    /\ HasCache(cache) => KeysWithinFiles(cache)
    /\ \A k \in 1..Len(run.stack) : KeysWithinFiles(run.stack[k].c)
    /\ \A d \in Loadable(fs) : KeysWithinFiles(Persisted(fs, d))

\* C13 happens: in an update without force the store of /r/a was loaded from
\* its cache file and has just been merged into the store of root, whose
\* loop is not over
C13_Witness ==
    /\ Len(run.stack) = 1 /\ ~run.force
    /\ Top.pc = "loop" /\ Top.todo # <<>>
    /\ run.counters.directories_processed = 0
    /\ Join(DirB, NameI) \in DOMAIN Top.c["data"]
    /\ Join(DirA, NameL) \in DOMAIN Top.c["mtime"]
    /\ Join(root, NameI) \notin Top.c["files"]

\* ------------------------------------------------------------------------
\* C16
\* ------------------------------------------------------------------------

\* the change and its mark_dirty are over, root has a cache file and no
\* marker, and the persisted store of root is not the tree
LostInvalidation ==
    /\ nchanges > 0 /\ run.mark = <<>>
    /\ ~NeedsRebuild(fs, root)
    /\ root \in Loadable(fs)
    /\ Persisted(fs, root) # Truth(fs)

\* C16: the steps of one update and of one change of a file followed by its
\* mark_dirty can fall so that the invalidation is lost (the witness); an
\* update without force that begins then takes the fast path, touches
\* nothing and returns with a store that is not the tree.
C16_LostInvalidationServed ==
    [][/\ (LostInvalidation /\ run.stack = <<>> /\ run'.stack # <<>> /\ ~run'.force) =>
            /\ fs' = fs
            /\ run'.stack[1].pc = "done"
            /\ run'.stack[1].c # Truth(fs)
       /\ (LostInvalidation /\ run.stack # <<>> /\ run'.stack = <<>> /\ ~run.force
              /\ run.counters = ZeroCounters /\ last'.exc = "none") =>
            /\ fs' = fs
            /\ cache' # Truth(fs')
            /\ last'.counters = ZeroCounters]_vars

\* C16 happens: /r/i was rewritten with "y" and root marked while an update
\* was under way; root has no marker, its cache file holds "x", and a later
\* update without force has returned "x" with no directory processed
C16_Witness ==
    /\ LostInvalidation /\ run.stack = <<>>
    /\ PIsFile(fs, Join(root, NameI))
    /\ fs[Join(root, NameI)].content = Text("y")
    /\ Join(root, NameI) \in DOMAIN Persisted(fs, root)["data"]
    /\ Persisted(fs, root)["data"][Join(root, NameI)] = "x"
    /\ last.op = "update" /\ ~last.force /\ last.exc = "none"
    /\ last.counters = ZeroCounters
    /\ HasCache(cache)
    /\ Join(root, NameI) \in DOMAIN cache["data"]
    /\ cache["data"][Join(root, NameI)] = "x"

\* ------------------------------------------------------------------------
\* C17
\* ------------------------------------------------------------------------

\* C17 as claimed: a marker is removed only when the cache file of its
\* directory holds the store of the call, a cache file is written only when
\* the loop of its directory is over, and after an update without force
\* that stops on an error the root still has a marker or no cache file.
C17_AsClaimed ==
    [][/\ \A d \in Markers(fs) \ Markers(fs') :
              d \in Loadable(fs) /\ Persisted(fs, d) = Top.c
       /\ \A d \in TreeDirs(fs) :
              (CacheFile(d) \in DOMAIN fs' /\ (CacheFile(d) \in DOMAIN fs =>
                                                 fs'[CacheFile(d)] # fs[CacheFile(d)]))
                 => (Top.r = d /\ Top.todo = <<>>)
       /\ (run.stack # <<>> /\ run'.stack = <<>> /\ ~run.force /\ last'.exc # "none")
              => NeedsRebuild(fs', root)]_vars

\* ------------------------------------------------------------------------
\* C14
\* ------------------------------------------------------------------------

\* the directories another program moves, each with its new place
Moves == { <<DirB, Join(root, NameB)>> }

\* another program moves the directory src, with all that is in it, to dst
MoveDir(src, dst) ==
    /\ nchanges < MaxChanges
    /\ PIsDir(fs, src)
    /\ dst \notin DOMAIN fs
    /\ PIsDir(fs, DirName(dst))
    /\ fs' = [q \in {x \in DOMAIN fs : ~Under(x, src)} \cup
                    {dst \o SubSeq(x, Len(src) + 1, Len(x)) : x \in {y \in DOMAIN fs : Under(y, src)}} |->
                 IF Under(q, dst) THEN fs[src \o SubSeq(q, Len(dst) + 1, Len(q))] ELSE fs[q]]
    /\ nchanges' = nchanges + 1
    /\ Did("move", src, FALSE, "none", 0, ZeroCounters, NoReads)
    /\ UNCHANGED <<cache, updated, run>>

NextMove ==
    \/ Next
    \/ \E mv \in Moves : MoveDir(mv[1], mv[2])

SpecMove == Init /\ [][NextMove]_vars

\* C14 as claimed: when an update that rebuilt root has returned, every path
\* in the store the instance holds is absolute and under root, and every
\* path in the store persisted for a directory of the tree is absolute and
\* under that directory; this also where a directory with a cache file was
\* moved and its new parent updated.
C14_AsClaimed ==
    (last.op = "update" /\ last.exc = "none" /\ last.counters.directories_processed > 0) =>
        /\ HasCache(cache) => \A q \in PathsOf(cache) : IsAbs(q) /\ Under(q, root)
        /\ \A d \in Loadable(fs) \cap TreeDirs(fs) :
              \A q \in PathsOf(Persisted(fs, d)) : IsAbs(q) /\ Under(q, d)

\* ------------------------------------------------------------------------
\* C15
\* ------------------------------------------------------------------------

\* a file was changed and mark_dirty of its directory has not been called yet
Pending == last.op \in {"write", "delete"}

\* the protocol: whole operations, one after another, on root; a change of a
\* file is followed at once by mark_dirty of the directory that holds the
\* file; no cache file is damaged
NextProto ==
    \/ Pending /\ MarkDirty(DirName(last.arg))
    \/ ~Pending /\ \E f \in FilePaths, c \in Contents, m \in Times : WriteFile(f, c, m)
    \/ ~Pending /\ \E f \in FilePaths : DeleteFile(f)
    \/ ~Pending /\ \E p \in TreeInputs : MarkDirty(p)
    \/ ~Pending /\ \E force \in BOOLEAN : Update(force)
    \/ ~Pending /\ \E force \in BOOLEAN : CliUpdate(force)

SpecProto == Init /\ [][NextProto]_vars

\* under the protocol, where root has a cache file and no marker and no
\* change waits for its mark_dirty, the persisted store of root is the tree
PersistedIsTruth ==
    (~Pending /\ ~NeedsRebuild(fs, root)) =>
        (root \in Loadable(fs) /\ Persisted(fs, root) = Truth(fs))

\* C15 as claimed: under the protocol, where root has a cache file and no
\* marker the persisted store of root is the tree, and an update that takes
\* the fast path leaves the caller with a store that is the tree.
C15_AsClaimed ==
    [][/\ PersistedIsTruth
       /\ (last'.op = "update" /\ ~last'.force /\ ~NeedsRebuild(fs, root)) =>
             (last'.exc = "none" /\ cache' = Truth(fs'))]_vars

\* ------------------------------------------------------------------------
\* C18
\* ------------------------------------------------------------------------

\* C18: after whole operations, one after another (mark_dirty on any path of
\* the tree, update with and without force, returning or raising, by the
\* instance or by another one on the same root, between changes of files
\* and damaged cache files), a directory of the tree that has a marker has
\* all directories from it up to root marked.
C18_MarkersUpwardClosed ==
    \A d \in Markers(fs) \cap TreeDirs(fs) : UpToRoot(d) \subseteq Markers(fs)

\* C18 happens: an update without force raised below /r/a, after /r/a was
\* marked; the markers of /r/a and of root are the ones left
C18_Witness ==
    /\ last.op = "update" /\ ~last.force /\ last.exc # "none"
    /\ last.after # <<>> /\ last.after[1].op = "mark_dirty"
    /\ Markers(fs) \cap TreeDirs(fs) = {root, DirA}

\* ------------------------------------------------------------------------
\* C19
\* ------------------------------------------------------------------------

\* nothing at or below d differs between the filesystems f and g
SameBelow(f, g, d) ==
    \A q \in DOMAIN f \cup DOMAIN g :
        Under(q, d) => (q \in DOMAIN f /\ q \in DOMAIN g /\ f[q] = g[q])

\* C19: an update without force that finds root with a cache file and no
\* marker leaves the filesystem as it was and processes no directory; in an
\* update without force that rebuilds, nothing at or below a directory that
\* has a cache file and no marker changes, and the directories processed
\* are the ones that were rebuilt, which leaves out these directories and
\* all below them.
C19_FastPathTouchesNothing ==
    [][(last'.op \in {"update", "cli_update"} /\ ~last'.force) =>
          /\ ~NeedsRebuild(fs, root) =>
                (fs' = fs /\ last'.counters = ZeroCounters)
          /\ \A d \in Served(fs) : SameBelow(fs, fs', d)
          /\ last'.exc = "none" =>
                last'.counters.directories_processed = Cardinality(Rebuilt(fs))]_vars

\* C19 happens: root alone was marked and an update without force has
\* rebuilt it; /r/a, with its cache file and no marker, was served as it was
C19_Witness ==
    /\ last.op = "update" /\ ~last.force /\ last.exc = "none"
    /\ last.after # <<>> /\ last.after[1] = [op |-> "mark_dirty", arg |-> root,
                                             force |-> FALSE, exc |-> "none"]
    /\ last.counters.directories_processed = 1
    /\ PExists(fs, CacheFile(DirA)) /\ PExists(fs, CacheFile(DirB))
    /\ Markers(fs) \cap TreeDirs(fs) = {}

\* ------------------------------------------------------------------------
\* C20
\* ------------------------------------------------------------------------

\* the counters mappings a caller passes to update
GivenCounters ==
    { ZeroCounters,
      [directories_processed |-> 2, files_read |-> 1, files_stat |-> 0] }

\* uptree.update(force, counters) with the caller's mapping c0.  update
\* adds to the mapping it is given and returns it (src/uptree.py:158, 162,
\* 169, 170), and hands the same mapping to every subtree (148), so what the
\* caller's mapping holds afterwards is what is returned.
UpdateCounted(force, c0) ==
    \E o \in {update(root, cache, force, c0, fs, ord) : ord \in Orders(fs)} :
        /\ fs' = o.fs
        /\ cache' = o.cache
        /\ Did("update", EmptyStr, force, o.exc, 0, o.counters, NoReads)
        /\ updated' = (updated \/ o.exc = "none")
        /\ run' = [run EXCEPT !.given =
                      [before |-> c0,
                       after |-> IF o.exc = "none" THEN o.counters ELSE c0]]
        /\ UNCHANGED nchanges

NextCounters ==
    \/ \E f \in FilePaths, c \in Contents, m \in Times : WriteFile(f, c, m)
    \/ \E f \in FilePaths : DeleteFile(f)
    \/ \E p \in TreeInputs : MarkDirty(p)
    \/ \E force \in BOOLEAN, c0 \in GivenCounters : UpdateCounted(force, c0)

SpecCounters == Init /\ [][NextCounters]_vars

\* the regular files of f that lie directly in a directory of dirs under a
\* name of names
DirectFiles(f, dirs, names) ==
    {q \in {Join(d, n) : d \in dirs, n \in names} : PIsFile(f, q)}

\* the names of names that do not begin with a dot
Visible(names) == {n \in names : ~StartsWith(n, << <<".">> >>)}

\* the directories a call of update on f rebuilds
Processed(f, force) == IF force THEN TreeDirs(f) ELSE Rebuilt(f)

\* the counters before, with the amounts for the directories dirs and the
\* names rd and st added
Counted(before, f, dirs, rd, st) ==
    [directories_processed |-> before.directories_processed + Cardinality(dirs),
     files_read |-> before.files_read + Cardinality(DirectFiles(f, dirs, rd)),
     files_stat |-> before.files_stat + Cardinality(DirectFiles(f, dirs, st))]

\* C20 as claimed: the counters update returns are the caller's, with the
\* number of rebuilt directories (all directories of the tree with force),
\* the number of regular files directly in them with a name in
\* content_cache_filenames, and the same for mtime_cache_filenames, added.
C20_AsClaimed ==
    [][(last'.op = "update" /\ last'.exc = "none") =>
          /\ last'.counters = Counted(run'.given.before, fs, Processed(fs, last'.force),
                                      content_cache_filenames, mtime_cache_filenames)
          /\ run'.given.after = last'.counters]_vars

\* C20 as amended: the same, counting only the files whose name does not
\* begin with a dot (the others are never listed).
C20_CountersCountRebuilt ==
    [][(last'.op = "update" /\ last'.exc = "none") =>
          /\ last'.counters = Counted(run'.given.before, fs, Processed(fs, last'.force),
                                      Visible(content_cache_filenames),
                                      Visible(mtime_cache_filenames))
          /\ run'.given.after = last'.counters]_vars

\* C20 happens: an update without force was given a mapping that held
\* counts; it rebuilt root and /r/a, where it read /r/i and stat-ed /r/a/l,
\* and left /r/a/b, with /r/a/b/i, as it was
C20_Witness ==
    /\ last.op = "update" /\ ~last.force /\ last.exc = "none"
    /\ run.given.before = [directories_processed |-> 2, files_read |-> 1, files_stat |-> 0]
    /\ run.given.after = [directories_processed |-> 4, files_read |-> 2, files_stat |-> 1]
    /\ last.counters = run.given.after
    /\ PIsFile(fs, Join(DirB, NameI))

====
